---- MODULE Spec2Model ----
(***************************************************************************)
(* A model of package wit of wasm-tools-go: package-name parsing and       *)
(* formatting (resolve.go), primitive type lookup (resolve.go) and the     *)
(* wasm-tools adapter (load.go).                                           *)
(*                                                                         *)
(* Go strings are modelled as sequences of one-character strings, so that  *)
(* cutting, splitting, parsing and formatting are computed, not assumed.   *)
(***************************************************************************)
EXTENDS Integers, Sequences, FiniteSets, TLC

VARIABLES
    ppc,      \* package-name scenario: "off", "start", "parsed", "stringified", "reparsed"
    input,    \* the string handed to ParsePackageName
    pn,       \* the PackageName ParsePackageName returned
    perr,     \* the error ParsePackageName returned (NilErr for nil)
    str,      \* pn.String()
    pn2,      \* the PackageName returned by ParsePackageName(str)
    perr2,    \* the error returned by ParsePackageName(str)
    tpc,      \* type scenario: "off", "start", "parsed", "named", "reparsed"
    tin,      \* the string handed to ParseType
    ttype,    \* the Type ParseType returned (NilType for nil)
    terr,     \* the error ParseType returned
    tname,    \* ttype.TypeName()
    ttype2,   \* the Type returned by ParseType(tname)
    terr2,    \* the error returned by ParseType(tname)
    lpc,      \* adapter: "off", "idle", "open", "decodeFile", "check", "lookpath",
              \*          "command", "run", "decode", "done"
    env,      \* the world outside: the search path, the file system, the tool's behaviour
    entry,    \* the function the caller called
    path,     \* argument path
    reader,   \* argument reader (NilReader for nil)
    wasmTools,  \* the executable exec.LookPath found
    cmd,      \* the exec.Cmd built: its arguments and its standard input
    lookups,  \* calls of exec.LookPath
    runs,     \* calls of cmd.Run
    decodes,  \* calls of DecodeJSON
    osStderr, \* what was written to os.Stderr
    retGraph, \* the *Resolve returned to the caller (NilResolve for nil)
    retErr,   \* the error returned to the caller
    gpc,      \* graph scenario: "off", "on"
    iface,    \* an Interface: its maps TypeDefs and Functions
    world,    \* a World: its maps Imports and Exports
    pkg,      \* a Package: its maps Interfaces and Worlds
    stores    \* map assignments made so far

pkgVars == <<ppc, input, pn, perr, str, pn2, perr2>>

typeVars == <<tpc, tin, ttype, terr, tname, ttype2, terr2>>

loadVars == <<lpc, env, entry, path, reader, wasmTools, cmd, lookups, runs, decodes,
              osStderr, retGraph, retErr>>

graphVars == <<gpc, iface, world, pkg, stores>>

vars == <<pkgVars, typeVars, loadVars, graphVars>>

----------------------------------------------------------------------------
(* Bounds of the model *)

\* longest enumerated text before the version separator
MaxHead == 3
\* longest enumerated version text over digits and dots
MaxVerLen == 5
\* longest enumerated type name
MaxTypeLen == 3
\* most map assignments made while a graph is built
MaxStores == 3

----------------------------------------------------------------------------
(* Go strings *)

Letters == {"a", "b", "c", "d", "e", "f", "g", "h", "i", "j", "k", "l", "m",
            "n", "o", "p", "q", "r", "s", "t", "u", "v", "w", "x", "y", "z"}

Digits == {"0", "1", "2", "3", "4", "5", "6", "7", "8", "9"}

\* all strings over alphabet A of length at most n
Strs(A, n) == UNION {[1..k -> A] : k \in 0..n}

\* strings.Index(s, c) + 1 for a one-character separator c; 0 when absent
Index(s, c) ==
    IF \E i \in 1..Len(s) : s[i] = c
    THEN CHOOSE i \in 1..Len(s) : s[i] = c /\ \A j \in 1..(i - 1) : s[j] # c
    ELSE 0

\* strings.Cut(s, sep): the text before and after the first sep
Cut(s, sep) ==
    LET i == Index(s, sep)
    IN  IF i = 0
        THEN [before |-> s, after |-> <<>>, found |-> FALSE]
        ELSE [before |-> SubSeq(s, 1, i - 1),
              after  |-> SubSeq(s, i + 1, Len(s)),
              found  |-> TRUE]

----------------------------------------------------------------------------
(* github.com/coreos/go-semver/semver, as used by resolve.go *)

NilErr == "<nil>"

\* semver.splitOff: strings.SplitN(*input, delim, 2)
splitOff(s, delim) ==
    LET c == Cut(s, delim)
    IN  IF c.found THEN [rest |-> c.before, val |-> c.after]
                   ELSE [rest |-> s, val |-> <<>>]

\* strings.SplitN(version, ".", 3)
DotParts(s) ==
    LET c1 == Cut(s, ".")
    IN  IF ~c1.found THEN <<s>>
        ELSE LET c2 == Cut(c1.after, ".")
             IN  IF ~c2.found THEN <<c1.before, c1.after>>
                 ELSE <<c1.before, c2.before, c2.after>>

\* reIdentifier: ^[0-9A-Za-z-]+(\.[0-9A-Za-z-]+)*$ ; the empty identifier is allowed
validateIdentifier(id) ==
    \/ id = <<>>
    \/ /\ \A i \in 1..Len(id) : id[i] \in Letters \cup Digits \cup {"-", "."}
       /\ id[1] # "."
       /\ id[Len(id)] # "."
       /\ \A i \in 1..(Len(id) - 1) : ~(id[i] = "." /\ id[i + 1] = ".")

DigitVal(c) ==
    CASE c = "0" -> 0 [] c = "1" -> 1 [] c = "2" -> 2 [] c = "3" -> 3
      [] c = "4" -> 4 [] c = "5" -> 5 [] c = "6" -> 6 [] c = "7" -> 7
      [] c = "8" -> 8 [] c = "9" -> 9

RECURSIVE DigitsVal(_)
DigitsVal(s) ==
    IF s = <<>> THEN 0
    ELSE 10 * DigitsVal(SubSeq(s, 1, Len(s) - 1)) + DigitVal(s[Len(s)])

\* strconv.ParseInt(s, 10, 64): an optional sign, then one or more decimal digits
\* (the enumerated texts are far shorter than the 19 digits an int64 holds)
ParseInt(s) ==
    LET signed == s # <<>> /\ s[1] \in {"+", "-"}
        ds     == IF signed THEN Tail(s) ELSE s
    IN  IF ds = <<>> \/ \E i \in 1..Len(ds) : ds[i] \notin Digits
        THEN [ok |-> FALSE, val |-> 0]
        ELSE [ok |-> TRUE,
              val |-> IF signed /\ s[1] = "-" THEN 0 - DigitsVal(ds) ELSE DigitsVal(ds)]

DigitChar(d) ==
    CASE d = 0 -> "0" [] d = 1 -> "1" [] d = 2 -> "2" [] d = 3 -> "3"
      [] d = 4 -> "4" [] d = 5 -> "5" [] d = 6 -> "6" [] d = 7 -> "7"
      [] d = 8 -> "8" [] d = 9 -> "9"

RECURSIVE FormatNat(_)
FormatNat(n) ==
    IF n < 10 THEN <<DigitChar(n)>>
    ELSE FormatNat(n \div 10) \o <<DigitChar(n % 10)>>

\* fmt's %d of an int64
FormatInt(n) == IF n < 0 THEN <<"-">> \o FormatNat(0 - n) ELSE FormatNat(n)

\* a nil *semver.Version
NilVersion == <<>>

\* semver.NewVersion / Version.Set: [ver |-> <<v>> or NilVersion, err |-> ...]
NewVersion(text) ==
    LET m        == splitOff(text, "+")
        p        == splitOff(m.rest, "-")
        dotParts == DotParts(p.rest)
        fail(e)  == [ver |-> NilVersion, err |-> e]
    IN  IF Len(dotParts) # 3 THEN fail("not in dotted-tri format")
        ELSE IF ~validateIdentifier(p.val) THEN fail("failed to validate pre-release")
        ELSE IF ~validateIdentifier(m.val) THEN fail("failed to validate metadata")
        ELSE IF \E i \in 1..3 : ~ParseInt(dotParts[i]).ok THEN fail("invalid syntax")
        ELSE [ver |-> <<[Major      |-> ParseInt(dotParts[1]).val,
                         Minor      |-> ParseInt(dotParts[2]).val,
                         Patch      |-> ParseInt(dotParts[3]).val,
                         PreRelease |-> p.val,
                         Metadata   |-> m.val]>>,
              err |-> NilErr]

\* mutant: the version printed as major.minor only
VersionString_MajorMinor(v) ==
    FormatInt(v.Major) \o <<".">> \o FormatInt(v.Minor)

\* semver.Version.String
VersionString(v) ==
    FormatInt(v.Major) \o <<".">> \o FormatInt(v.Minor) \o <<".">> \o FormatInt(v.Patch)
        \o (IF v.PreRelease # <<>> THEN <<"-">> \o v.PreRelease ELSE <<>>)
        \o (IF v.Metadata # <<>> THEN <<"+">> \o v.Metadata ELSE <<>>)

----------------------------------------------------------------------------
(* PackageName: resolve.go *)

\* the zero PackageName
ZeroPackageName == [Namespace |-> <<>>, Name |-> <<>>, Version |-> NilVersion]

\* mutant: the name is not checked
Validate_NamespaceOnly(p) ==
    IF p.Namespace = <<>> THEN "missing package namespace" ELSE NilErr

\* (*PackageName).Validate
Validate(p) ==
    IF p.Namespace = <<>> THEN "missing package namespace"
    ELSE IF p.Name = <<>> THEN "missing package name"
    ELSE NilErr

\* mutant: the error of semver.NewVersion is dropped
ParsePackageName_IgnoreVersionError(s) ==
    LET at    == Cut(s, "@")
        colon == Cut(at.before, ":")
        base  == [Namespace |-> colon.before, Name |-> colon.after, Version |-> NilVersion]
    IN  IF at.found
        THEN LET p == [base EXCEPT !.Version = NewVersion(at.after).ver]
             IN  [pn |-> p, err |-> Validate(p)]
        ELSE [pn |-> base, err |-> Validate(base)]

\* strings.LastIndex-style cut, used by the mutant below
CutLast(s, sep) ==
    IF Index(s, sep) = 0
    THEN [before |-> s, after |-> <<>>, found |-> FALSE]
    ELSE LET i == CHOOSE k \in 1..Len(s) :
                      s[k] = sep /\ \A j \in (k + 1)..Len(s) : s[j] # sep
         IN  [before |-> SubSeq(s, 1, i - 1),
              after  |-> SubSeq(s, i + 1, Len(s)),
              found  |-> TRUE]

\* mutant: namespace and name are split on the last ':'
ParsePackageName_ColonLast(s) ==
    LET at    == Cut(s, "@")
        colon == CutLast(at.before, ":")
        base  == [Namespace |-> colon.before, Name |-> colon.after, Version |-> NilVersion]
    IN  IF at.found
        THEN LET nv == NewVersion(at.after)
                 p  == [base EXCEPT !.Version = nv.ver]
             IN  IF nv.err # NilErr
                 THEN [pn |-> p, err |-> nv.err]
                 ELSE [pn |-> p, err |-> Validate(p)]
        ELSE [pn |-> base, err |-> Validate(base)]

\* ParsePackageName
ParsePackageName(s) ==
    LET at    == Cut(s, "@")
        colon == Cut(at.before, ":")
        base  == [Namespace |-> colon.before, Name |-> colon.after, Version |-> NilVersion]
    IN  IF at.found
        THEN LET nv == NewVersion(at.after)
                 p  == [base EXCEPT !.Version = nv.ver]
             IN  IF nv.err # NilErr
                 THEN [pn |-> p, err |-> nv.err]
                 ELSE [pn |-> p, err |-> Validate(p)]
        ELSE [pn |-> base, err |-> Validate(base)]

\* mutant: the version is left out of the string
String_DropVersion(p) == p.Namespace \o <<":">> \o p.Name

\* (*PackageName).String
String(p) ==
    IF p.Version = NilVersion
    THEN p.Namespace \o <<":">> \o p.Name
    ELSE p.Namespace \o <<":">> \o p.Name \o <<"@">> \o VersionString(p.Version[1])

----------------------------------------------------------------------------
(* Inputs of the package-name scenario *)

Heads == Strs({"a", "b", ":", "@"}, MaxHead)

\* version texts: every short text over a digit and the dot, and chosen longer ones
VerTexts ==
    Strs({"1", "."}, MaxVerLen) \cup
    { <<"1", ".", "0", ".", "0">>,
      <<"0", ".", "1", ".", "1", "0">>,
      <<"0", "1", ".", "0", ".", "0">>,
      <<"1", ".", "0", ".", "0", ".", "0">>,
      <<"v", "1", ".", "0", ".", "0">>,
      <<"x">>,
      <<"1", ".", "0", ".", "0", "-">>,
      <<"1", ".", "0", ".", "0", "+">>,
      <<"1", ".", "0", ".", "0", "-", "a">>,
      <<"1", ".", "0", ".", "0", "+", "b">>,
      <<"1", ".", "0", ".", "0", "-", "a", "+", "b">>,
      <<"1", ".", "0", ".", "0", "+", "b", "-", "a">>,
      <<"1", ".", "0", ".", "0", "-", "a", ".", "1">>,
      <<"1", ".", "0", ".", "0", "-", "a", ".", ".", "1">>,
      <<"1", ".", "0", ".", "0", "-", ".", "a">>,
      <<"1", ".", "0", ".", "0", "+", "b", "+", "b">>,
      <<"1", ".", "0", ".", "-", "1">>,
      <<"-", "1", ".", "0", ".", "0">>,
      <<"+", "1", ".", "0", ".", "0">>,
      <<"1", ".", "0", ".", "0", "@">>,
      <<"1", ".", "0", ".", "0", ":", "b">>,
      <<"1", ".", "0", ".", "0", "@", "1", ".", "0", ".", "0">>,
      <<"1", ".", "0", ".", "0", "+", "b", "@", "b">>,
      <<":", "b">> }

wasi == <<"w", "a", "s", "i">>
clocks == <<"c", "l", "o", "c", "k", "s">>

\* the inputs of the scenarios of the specification
ScenarioInputs ==
    { wasi \o <<":">> \o clocks,
      wasi \o <<":">> \o clocks \o <<"@", "1", ".", "0", ".", "0">>,
      <<":">> \o clocks,
      wasi \o <<":">>,
      wasi \o <<":">> \o clocks \o <<"@">>,
      wasi \o <<":">> \o clocks \o <<"@", "x">>,
      wasi,
      wasi \o <<"@", "1", ".", "0", ".", "0">> }

\* identifiers and versions of the canonical forms
Idents == (Strs({"a", "b"}, 2) \ {<<>>}) \cup {wasi, clocks}

\* names: identifiers, and names that hold a ':' themselves
Names == Idents \cup {<<":">>, <<"a", ":", "b">>}

CanonVersionTexts ==
    { <<"1", ".", "0", ".", "0">>,
      <<"1", ".", "1", ".", "1">>,
      <<"0", ".", "1", ".", "1", "0">>,
      <<"1", ".", "0", ".", "0", "-", "a">>,
      <<"1", ".", "0", ".", "0", "+", "b">>,
      <<"1", ".", "0", ".", "0", "-", "a", "+", "b">>,
      <<"1", ".", "0", ".", "0", "-", "a", ".", "1">> }

\* the strings in canonical form namespace:name or namespace:name@version
CanonicalForms ==
    {ns \o <<":">> \o nm : ns \in Idents, nm \in Names} \cup
    {ns \o <<":">> \o nm \o <<"@">> \o v : ns \in Idents, nm \in Names, v \in CanonVersionTexts}

Inputs ==
    Heads \cup {h \o <<"@">> \o t : h \in Heads, t \in VerTexts}
          \cup ScenarioInputs \cup CanonicalForms

----------------------------------------------------------------------------
(* The package-name scenario: parse, stringify, parse again *)

InitPkg ==
    /\ ppc = "start"
    /\ input \in Inputs
    /\ pn = ZeroPackageName
    /\ perr = NilErr
    /\ str = <<>>
    /\ pn2 = ZeroPackageName
    /\ perr2 = NilErr

\* pn, err := ParsePackageName(input)
Parse ==
    /\ ppc = "start"
    /\ pn' = ParsePackageName(input).pn
    /\ perr' = ParsePackageName(input).err
    /\ ppc' = "parsed"
    /\ UNCHANGED <<input, str, pn2, perr2, typeVars, loadVars, graphVars>>

\* str := pn.String(), on a PackageName that parsed without error
Stringify ==
    /\ ppc = "parsed"
    /\ perr = NilErr
    /\ str' = String(pn)
    /\ ppc' = "stringified"
    /\ UNCHANGED <<input, pn, perr, pn2, perr2, typeVars, loadVars, graphVars>>

\* pn2, err2 := ParsePackageName(str)
Reparse ==
    /\ ppc = "stringified"
    /\ pn2' = ParsePackageName(str).pn
    /\ perr2' = ParsePackageName(str).err
    /\ ppc' = "reparsed"
    /\ UNCHANGED <<input, pn, perr, str, typeVars, loadVars, graphVars>>



----------------------------------------------------------------------------
(* Primitive types: resolve.go *)

\* a nil Type
NilType == "nil"

\* a nil error, and an error with its text
NilError == [nil |-> TRUE, text |-> <<>>]

Error(text) == [nil |-> FALSE, text |-> text]

\* the types Bool .. String: the type argument T of the embedded _primitive[T]
PrimitiveTypes ==
    {"Bool", "S8", "U8", "S16", "U16", "S32", "U32", "S64", "U64", "Float32", "Float64", "Char", "String"}

\* mutant: Char embeds _primitive[rune], and rune is an alias of int32
TypeArg_CharIsRune(t) ==
    CASE t = "Bool" -> "bool"
      [] t = "S8" -> "int8"
      [] t = "U8" -> "uint8"
      [] t = "S16" -> "int16"
      [] t = "U16" -> "uint16"
      [] t = "S32" -> "int32"
      [] t = "U32" -> "uint32"
      [] t = "S64" -> "int64"
      [] t = "U64" -> "uint64"
      [] t = "Float32" -> "float32"
      [] t = "Float64" -> "float64"
      [] t = "Char" -> "int32"
      [] t = "String" -> "string"

\* type Bool struct{ _primitive[bool] } ... type String struct{ _primitive[string] }
TypeArg(t) ==
    CASE t = "Bool" -> "bool"
      [] t = "S8" -> "int8"
      [] t = "U8" -> "uint8"
      [] t = "S16" -> "int16"
      [] t = "U16" -> "uint16"
      [] t = "S32" -> "int32"
      [] t = "U32" -> "uint32"
      [] t = "S64" -> "int64"
      [] t = "U64" -> "uint64"
      [] t = "Float32" -> "float32"
      [] t = "Float64" -> "float64"
      [] t = "Char" -> "char"
      [] t = "String" -> "string"

\* (_primitive[T]).TypeName: a switch on the type of the zero value of T
TypeName(t) ==
    LET v == TypeArg(t) IN
    CASE v = "bool" -> <<"b", "o", "o", "l">>
      [] v = "int8" -> <<"s", "8">>
      [] v = "uint8" -> <<"u", "8">>
      [] v = "int16" -> <<"s", "1", "6">>
      [] v = "uint16" -> <<"u", "1", "6">>
      [] v = "int32" -> <<"s", "3", "2">>
      [] v = "uint32" -> <<"u", "3", "2">>
      [] v = "int64" -> <<"s", "6", "4">>
      [] v = "uint64" -> <<"u", "6", "4">>
      [] v = "float32" -> <<"f", "l", "o", "a", "t", "3", "2">>
      [] v = "float64" -> <<"f", "l", "o", "a", "t", "6", "4">>
      [] v = "char" -> <<"c", "h", "a", "r">>
      [] v = "string" -> <<"s", "t", "r", "i", "n", "g">>
      [] OTHER -> <<"<", "u", "n", "d", "e", "f", "i", "n", "e", "d", ">">>

\* fmt's %q of a string without quotes, backslashes or control characters
Quote(s) == <<"\"">> \o s \o <<"\"">>

\* ParseType
ParseType(s) ==
    CASE s = <<"b", "o", "o", "l">> -> [type |-> "Bool", err |-> NilError]
      [] s = <<"s", "8">> -> [type |-> "S8", err |-> NilError]
      [] s = <<"u", "8">> -> [type |-> "U8", err |-> NilError]
      [] s = <<"s", "1", "6">> -> [type |-> "S16", err |-> NilError]
      [] s = <<"u", "1", "6">> -> [type |-> "U16", err |-> NilError]
      [] s = <<"s", "3", "2">> -> [type |-> "S32", err |-> NilError]
      [] s = <<"u", "3", "2">> -> [type |-> "U32", err |-> NilError]
      [] s = <<"s", "6", "4">> -> [type |-> "S64", err |-> NilError]
      [] s = <<"u", "6", "4">> -> [type |-> "U64", err |-> NilError]
      [] s = <<"f", "l", "o", "a", "t", "3", "2">> -> [type |-> "Float32", err |-> NilError]
      [] s = <<"f", "l", "o", "a", "t", "6", "4">> -> [type |-> "Float64", err |-> NilError]
      [] s = <<"c", "h", "a", "r">> -> [type |-> "Char", err |-> NilError]
      [] s = <<"s", "t", "r", "i", "n", "g">> -> [type |-> "String", err |-> NilError]
      [] OTHER -> [type |-> NilType,
                    err |-> Error(<<"u", "n", "k", "n", "o", "w", "n", " ", "t", "y", "p", "e", " ">> \o Quote(s))]

\* the strings handed to ParseType: every short string over three characters
\* of the names, the names themselves, and near misses
TypeInputs ==
    Strs({"s", "u", "8"}, MaxTypeLen) \cup
    { <<"b", "o", "o", "l">>,
      <<"s", "8">>,
      <<"u", "8">>,
      <<"s", "1", "6">>,
      <<"u", "1", "6">>,
      <<"s", "3", "2">>,
      <<"u", "3", "2">>,
      <<"s", "6", "4">>,
      <<"u", "6", "4">>,
      <<"f", "l", "o", "a", "t", "3", "2">>,
      <<"f", "l", "o", "a", "t", "6", "4">>,
      <<"c", "h", "a", "r">>,
      <<"s", "t", "r", "i", "n", "g">>,
      <<"i", "n", "t", "8">>,
      <<"u", "i", "n", "t", "8">>,
      <<"i", "n", "t", "1", "6">>,
      <<"u", "i", "n", "t", "1", "6">>,
      <<"i", "n", "t", "3", "2">>,
      <<"u", "i", "n", "t", "3", "2">>,
      <<"i", "n", "t", "6", "4">>,
      <<"u", "i", "n", "t", "6", "4">>,
      <<"B", "o", "o", "l">>,
      <<"B", "O", "O", "L">>,
      <<"u", "1", "2", "8">>,
      <<"s", "1", "2", "8">>,
      <<"f", "3", "2">>,
      <<"f", "6", "4">>,
      <<"f", "l", "o", "a", "t">>,
      <<"r", "u", "n", "e">>,
      <<"s", "t", "r">>,
      <<"S", "t", "r", "i", "n", "g">>,
      <<"<", "u", "n", "d", "e", "f", "i", "n", "e", "d", ">">>,
      <<"b", "o", "o", "l", " ">>,
      <<"b", "o", "o", "l", "e", "a", "n">>,
      <<"f", "l", "o", "a", "t", "3", "2", "0">> }

InitType ==
    /\ tpc = "start"
    /\ tin \in TypeInputs
    /\ ttype = NilType
    /\ terr = NilError
    /\ tname = <<>>
    /\ ttype2 = NilType
    /\ terr2 = NilError

\* t, err := ParseType(tin)
ParseTypeCall ==
    /\ tpc = "start"
    /\ ttype' = ParseType(tin).type
    /\ terr' = ParseType(tin).err
    /\ tpc' = "parsed"
    /\ UNCHANGED <<tin, tname, ttype2, terr2, pkgVars, loadVars, graphVars>>

\* name := t.TypeName(), on a Type that ParseType returned
TypeNameCall ==
    /\ tpc = "parsed"
    /\ ttype # NilType
    /\ tname' = TypeName(ttype)
    /\ tpc' = "named"
    /\ UNCHANGED <<tin, ttype, terr, ttype2, terr2, pkgVars, loadVars, graphVars>>

\* t2, err2 := ParseType(name)
ReparseTypeCall ==
    /\ tpc = "named"
    /\ ttype2' = ParseType(tname).type
    /\ terr2' = ParseType(tname).err
    /\ tpc' = "reparsed"
    /\ UNCHANGED <<tin, ttype, terr, tname, pkgVars, loadVars, graphVars>>

----------------------------------------------------------------------------
(* The wasm-tools adapter: load.go *)

\* a nil io.Reader and a nil *Resolve
NilReader == "nil"

NilResolve == "nil"

\* the errors of the adapter: the dynamic type, Error() and, for an
\* *exec.ExitError, its Stderr field
NoError == [type |-> "nil", msg |-> "", Stderr |-> ""]

\* errors.New("cannot set both path and reader; provide only one")
ErrBothPathAndReader ==
    [type |-> "*errors.errorString",
     msg |-> "cannot set both path and reader; provide only one", Stderr |-> ""]

\* the error of exec.LookPath
ErrNotFound ==
    [type |-> "*exec.Error",
     msg |-> "exec: wasm-tools: executable file not found in $PATH", Stderr |-> ""]

\* the error of os.Open
ErrOpen == [type |-> "*fs.PathError", msg |-> "open: no such file or directory", Stderr |-> ""]

\* the error of cmd.Run for a tool that exited non-zero: Run fills Stderr of
\* the ExitError only for Cmd.Output, and only when Cmd.Stderr is nil
ErrExit(code) ==
    [type |-> "*exec.ExitError",
     msg |-> IF code = 1 THEN "exit status 1" ELSE "exit status 2", Stderr |-> ""]

ErrDecode == [type |-> "decode error", msg |-> "malformed document", Stderr |-> ""]

\* DecodeJSON: a well-formed document decodes to a graph, any other to an error
DecodeJSON(doc) ==
    IF doc = "well-formed"
    THEN [graph |-> "resolve", err |-> NoError]
    ELSE [graph |-> NilResolve, err |-> ErrDecode]

Paths == {"", "-", "a.wit"}

Readers == {NilReader, "stream"}

StderrTexts == {"", "error: expected package"}

\* what the calls depend on and the program does not control
Envs ==
    [inPath   : BOOLEAN,                    \* wasm-tools is on $PATH
     opens    : BOOLEAN,                    \* os.Open(path) succeeds
     exit     : {0, 1, 2},                  \* the exit status of wasm-tools
     stderr   : StderrTexts,                \* what wasm-tools writes to its stderr
     document : {"well-formed", "malformed"}]  \* the JSON in the file or on stdout

NoCmd == [args |-> <<>>, stdin |-> NilReader]

InitLoad ==
    /\ lpc = "idle"
    /\ env \in Envs
    /\ entry = ""
    /\ path = ""
    /\ reader = NilReader
    /\ wasmTools = ""
    /\ cmd = NoCmd
    /\ lookups = 0
    /\ runs = 0
    /\ decodes = 0
    /\ osStderr = <<>>
    /\ retGraph = NilResolve
    /\ retErr = NoError

\* return g, e
Return(g, e) ==
    /\ retGraph' = g
    /\ retErr' = e
    /\ lpc' = "done"

\* a caller calls LoadJSON(p)
CallLoadJSON ==
    /\ lpc = "idle"
    /\ \E p \in Paths : path' = p
    /\ entry' = "LoadJSON"
    /\ lpc' = "open"
    /\ UNCHANGED <<env, reader, wasmTools, cmd, lookups, runs, decodes, osStderr,
                   retGraph, retErr, pkgVars, typeVars, graphVars>>

\* LoadJSON: f, err := os.Open(path); if err != nil { return nil, err }
LoadJSON_Open ==
    /\ lpc = "open"
    /\ IF env.opens
       THEN lpc' = "decodeFile" /\ UNCHANGED <<retGraph, retErr>>
       ELSE Return(NilResolve, ErrOpen)
    /\ UNCHANGED <<env, entry, path, reader, wasmTools, cmd, lookups, runs, decodes,
                   osStderr, pkgVars, typeVars, graphVars>>

\* LoadJSON: return DecodeJSON(f)
LoadJSON_Decode ==
    /\ lpc = "decodeFile"
    /\ decodes' = decodes + 1
    /\ Return(DecodeJSON(env.document).graph, DecodeJSON(env.document).err)
    /\ UNCHANGED <<env, entry, path, reader, wasmTools, cmd, lookups, runs, osStderr,
                   pkgVars, typeVars, graphVars>>

\* a caller calls LoadWIT(p): return loadWIT(path, nil)
CallLoadWIT ==
    /\ lpc = "idle"
    /\ \E p \in Paths : path' = p
    /\ reader' = NilReader
    /\ entry' = "LoadWIT"
    /\ lpc' = "check"
    /\ UNCHANGED <<env, wasmTools, cmd, lookups, runs, decodes, osStderr,
                   retGraph, retErr, pkgVars, typeVars, graphVars>>

\* a caller calls DecodeWIT(r): return loadWIT("", r)
CallDecodeWIT ==
    /\ lpc = "idle"
    /\ path' = ""
    /\ \E r \in Readers : reader' = r
    /\ entry' = "DecodeWIT"
    /\ lpc' = "check"
    /\ UNCHANGED <<env, wasmTools, cmd, lookups, runs, decodes, osStderr,
                   retGraph, retErr, pkgVars, typeVars, graphVars>>

\* code of the package calls loadWIT(p, r)
CallloadWIT ==
    /\ lpc = "idle"
    /\ \E p \in Paths : path' = p
    /\ \E r \in Readers : reader' = r
    /\ entry' = "loadWIT"
    /\ lpc' = "check"
    /\ UNCHANGED <<env, wasmTools, cmd, lookups, runs, decodes, osStderr,
                   retGraph, retErr, pkgVars, typeVars, graphVars>>

\* mutant: a path "-" is not counted as a path
BothPathAndReader_DashIsNoPath(p, r) == p # "" /\ p # "-" /\ r # NilReader

\* loadWIT: path != "" && reader != nil
BothPathAndReader(p, r) == p # "" /\ r # NilReader

\* loadWIT: if path != "" && reader != nil { return nil, errors.New(...) }
loadWIT_Check ==
    /\ lpc = "check"
    /\ IF BothPathAndReader(path, reader)
       THEN Return(NilResolve, ErrBothPathAndReader)
       ELSE lpc' = "lookpath" /\ UNCHANGED <<retGraph, retErr>>
    /\ UNCHANGED <<env, entry, path, reader, wasmTools, cmd, lookups, runs, decodes,
                   osStderr, pkgVars, typeVars, graphVars>>

\* loadWIT: wasmTools, err := exec.LookPath("wasm-tools"); if err != nil { return nil, err }
loadWIT_LookPath ==
    /\ lpc = "lookpath"
    /\ lookups' = lookups + 1
    /\ IF env.inPath
       THEN /\ wasmTools' = "/usr/bin/wasm-tools"
            /\ lpc' = "command"
            /\ UNCHANGED <<retGraph, retErr>>
       ELSE /\ Return(NilResolve, ErrNotFound)
            /\ UNCHANGED wasmTools
    /\ UNCHANGED <<env, entry, path, reader, cmd, runs, decodes, osStderr,
                   pkgVars, typeVars, graphVars>>

\* loadWIT: cmdArgs, with the path appended when it is not ""
CmdArgs(p) ==
    <<"component", "wit", "-j", "--all-features">> \o (IF p # "" THEN <<p>> ELSE <<>>)

\* loadWIT: cmd := exec.Command(wasmTools, cmdArgs...); cmd.Stdin = reader
loadWIT_Command ==
    /\ lpc = "command"
    /\ cmd' = [args |-> <<wasmTools>> \o CmdArgs(path), stdin |-> reader]
    /\ lpc' = "run"
    /\ UNCHANGED <<env, entry, path, reader, wasmTools, lookups, runs, decodes,
                   osStderr, retGraph, retErr, pkgVars, typeVars, graphVars>>

\* mutant: the error of cmd.Run is not looked at
RunFailed_Ignored(code) == FALSE

\* cmd.Run returns an error for a tool that exited non-zero
RunFailed(code) == code # 0

\* mutant: the captured stderr is not printed
FprintStderr_Dropped(out, text) == out

\* fmt.Fprint(os.Stderr, stderr.String())
FprintStderr(out, text) == Append(out, text)

\* loadWIT: if err := cmd.Run(); err != nil { fmt.Fprint(os.Stderr, ...); return nil, err }
loadWIT_Run ==
    /\ lpc = "run"
    /\ runs' = runs + 1
    /\ IF RunFailed(env.exit)
       THEN /\ osStderr' = FprintStderr(osStderr, env.stderr)
            /\ Return(NilResolve, ErrExit(env.exit))
       ELSE /\ lpc' = "decode"
            /\ UNCHANGED <<osStderr, retGraph, retErr>>
    /\ UNCHANGED <<env, entry, path, reader, wasmTools, cmd, lookups, decodes,
                   pkgVars, typeVars, graphVars>>

\* loadWIT: return DecodeJSON(&stdout)
loadWIT_Decode ==
    /\ lpc = "decode"
    /\ decodes' = decodes + 1
    /\ Return(DecodeJSON(env.document).graph, DecodeJSON(env.document).err)
    /\ UNCHANGED <<env, entry, path, reader, wasmTools, cmd, lookups, runs, osStderr,
                   pkgVars, typeVars, graphVars>>

----------------------------------------------------------------------------
(* The data model: World, Interface, Package of resolve.go *)

\* a Go map[string]V is a set of entries [key, val]; its keys
MapKeys(m) == {e.key : e \in m}

\* mutant: an assignment adds an entry and leaves the entry of the same key
MapStore_KeepsOld(m, k, v) == m \cup {[key |-> k, val |-> v]}

\* m[k] = v on a Go map: the entry of key k is replaced
MapStore(m, k, v) == {e \in m : e.key # k} \cup {[key |-> k, val |-> v]}

\* the names in use
GraphNames == {"a", "b"}

\* *TypeDef, *Function, *Interface and *World values, each with its own Name field
TypeDefs == [kind : {"TypeDef"}, Name : GraphNames]

Functions == [kind : {"Function"}, Name : GraphNames]

Interfaces == [kind : {"Interface"}, Name : GraphNames]

Worlds == [kind : {"World"}, Name : GraphNames]

\* WorldItem: an Interface, a TypeDef or a Function
WorldItems == Interfaces \cup TypeDefs \cup Functions

InitGraph ==
    /\ gpc = "on"
    /\ iface = [TypeDefs |-> {}, Functions |-> {}]
    /\ world = [Imports |-> {}, Exports |-> {}]
    /\ pkg = [Interfaces |-> {}, Worlds |-> {}]
    /\ stores = 0

\* i.TypeDefs[k] = t
StoreTypeDef ==
    /\ gpc = "on" /\ stores < MaxStores
    /\ \E k \in GraphNames, t \in TypeDefs :
          iface' = [iface EXCEPT !.TypeDefs = MapStore(@, k, t)]
    /\ stores' = stores + 1
    /\ UNCHANGED <<gpc, world, pkg, pkgVars, typeVars, loadVars>>

\* i.Functions[k] = f
StoreFunction ==
    /\ gpc = "on" /\ stores < MaxStores
    /\ \E k \in GraphNames, f \in Functions :
          iface' = [iface EXCEPT !.Functions = MapStore(@, k, f)]
    /\ stores' = stores + 1
    /\ UNCHANGED <<gpc, world, pkg, pkgVars, typeVars, loadVars>>

\* w.Imports[k] = item
StoreImport ==
    /\ gpc = "on" /\ stores < MaxStores
    /\ \E k \in GraphNames, item \in WorldItems :
          world' = [world EXCEPT !.Imports = MapStore(@, k, item)]
    /\ stores' = stores + 1
    /\ UNCHANGED <<gpc, iface, pkg, pkgVars, typeVars, loadVars>>

\* w.Exports[k] = item
StoreExport ==
    /\ gpc = "on" /\ stores < MaxStores
    /\ \E k \in GraphNames, item \in WorldItems :
          world' = [world EXCEPT !.Exports = MapStore(@, k, item)]
    /\ stores' = stores + 1
    /\ UNCHANGED <<gpc, iface, pkg, pkgVars, typeVars, loadVars>>

\* p.Interfaces[k] = i
StoreInterface ==
    /\ gpc = "on" /\ stores < MaxStores
    /\ \E k \in GraphNames, i \in Interfaces :
          pkg' = [pkg EXCEPT !.Interfaces = MapStore(@, k, i)]
    /\ stores' = stores + 1
    /\ UNCHANGED <<gpc, iface, world, pkgVars, typeVars, loadVars>>

\* p.Worlds[k] = w
StoreWorld ==
    /\ gpc = "on" /\ stores < MaxStores
    /\ \E k \in GraphNames, w \in Worlds :
          pkg' = [pkg EXCEPT !.Worlds = MapStore(@, k, w)]
    /\ stores' = stores + 1
    /\ UNCHANGED <<gpc, iface, world, pkgVars, typeVars, loadVars>>

----------------------------------------------------------------------------
(* Specifications: one per part of the package *)

PkgOff ==
    /\ ppc = "off" /\ input = <<>> /\ pn = ZeroPackageName /\ perr = NilErr
    /\ str = <<>> /\ pn2 = ZeroPackageName /\ perr2 = NilErr

TypeOff ==
    /\ tpc = "off" /\ tin = <<>> /\ ttype = NilType /\ terr = NilError
    /\ tname = <<>> /\ ttype2 = NilType /\ terr2 = NilError

LoadOff ==
    /\ lpc = "off" /\ env = [inPath |-> FALSE, opens |-> FALSE, exit |-> 0,
                             stderr |-> "", document |-> "malformed"]
    /\ entry = "" /\ path = "" /\ reader = NilReader /\ wasmTools = "" /\ cmd = NoCmd
    /\ lookups = 0 /\ runs = 0 /\ decodes = 0 /\ osStderr = <<>>
    /\ retGraph = NilResolve /\ retErr = NoError

GraphOff ==
    /\ gpc = "off" /\ iface = [TypeDefs |-> {}, Functions |-> {}]
    /\ world = [Imports |-> {}, Exports |-> {}]
    /\ pkg = [Interfaces |-> {}, Worlds |-> {}] /\ stores = 0

InitPkgSpec == InitPkg /\ TypeOff /\ LoadOff /\ GraphOff

NextPkg == Parse \/ Stringify \/ Reparse

SpecPkg == InitPkgSpec /\ [][NextPkg]_vars

InitTypeSpec == InitType /\ PkgOff /\ LoadOff /\ GraphOff

NextType == ParseTypeCall \/ TypeNameCall \/ ReparseTypeCall

SpecType == InitTypeSpec /\ [][NextType]_vars

InitLoadSpec == InitLoad /\ PkgOff /\ TypeOff /\ GraphOff

NextLoad ==
    \/ CallLoadJSON \/ LoadJSON_Open \/ LoadJSON_Decode
    \/ CallLoadWIT \/ CallDecodeWIT \/ CallloadWIT
    \/ loadWIT_Check \/ loadWIT_LookPath \/ loadWIT_Command \/ loadWIT_Run
    \/ loadWIT_Decode

SpecLoad == InitLoadSpec /\ [][NextLoad]_vars

InitGraphSpec == InitGraph /\ PkgOff /\ TypeOff /\ LoadOff

NextGraph ==
    \/ StoreTypeDef \/ StoreFunction \/ StoreImport \/ StoreExport
    \/ StoreInterface \/ StoreWorld

SpecGraph == InitGraphSpec /\ [][NextGraph]_vars

----------------------------------------------------------------------------
(* Properties of package-name parsing *)

\* C1: round trip, parse after stringify: for every PackageName p that
\* ParsePackageName returned with a nil error, ParsePackageName(p.String())
\* succeeds and yields a value equal to p in namespace, name and version.
C1_ParseAfterStringify ==
    ppc = "reparsed" =>
        /\ perr2 = NilErr
        /\ pn2.Namespace = pn.Namespace
        /\ pn2.Name = pn.Name
        /\ pn2.Version = pn.Version

\* a parsed value with a version whose canonical string differs from the input
C1_Witness ==
    /\ ppc = "reparsed"
    /\ perr = NilErr
    /\ pn.Version # NilVersion
    /\ str # input

\* the PackageName of scenario A and of scenario B
ScenarioA == [Namespace |-> wasi, Name |-> clocks, Version |-> NilVersion]

ScenarioB ==
    [Namespace |-> wasi, Name |-> clocks,
     Version |-> <<[Major |-> 1, Minor |-> 0, Patch |-> 0,
                    PreRelease |-> <<>>, Metadata |-> <<>>]>>]

\* C2: round trip, stringify after parse: every string in canonical form
\* parses without error and String() of the result is exactly that string;
\* wasi:clocks and wasi:clocks@1.0.0 parse to the values of scenarios A and B.
C2_StringifyAfterParse ==
    /\ (input \in CanonicalForms /\ ppc # "start") => perr = NilErr
    /\ (input \in CanonicalForms /\ ppc \in {"stringified", "reparsed"}) => str = input
    /\ (input = wasi \o <<":">> \o clocks /\ ppc # "start") => pn = ScenarioA
    /\ (input = wasi \o <<":">> \o clocks \o <<"@", "1", ".", "0", ".", "0">> /\ ppc # "start")
           => pn = ScenarioB

\* scenario B, parsed and stringified back
C2_Witness ==
    /\ ppc = "stringified"
    /\ input = wasi \o <<":">> \o clocks \o <<"@", "1", ".", "0", ".", "0">>
    /\ pn = ScenarioB
    /\ str = input

\* the input has no ':' before its version separator, nothing before it, or nothing after it
NoNamespaceOrName(s) ==
    LET head == Cut(s, "@").before
    IN  \/ Index(s, ":") = 0
        \/ s[1] = ":"
        \/ Index(head, ":") = 0
        \/ Index(head, ":") = Len(head)

\* C3: ParsePackageName returns a nil error only when namespace and name are
\* both non-empty; inputs with an empty namespace, an empty name or no ':'
\* are rejected, with or without a version suffix.
C3_NamespaceAndNameRequired ==
    ppc # "start" =>
        /\ perr = NilErr => (pn.Namespace # <<>> /\ pn.Name # <<>>)
        /\ NoNamespaceOrName(input) => perr # NilErr

\* an input with an empty name and a valid version suffix, rejected
C3_Witness ==
    /\ ppc = "parsed"
    /\ input = <<"a", ":", "@", "1", ".", "0", ".", "0">>
    /\ perr = "missing package name"

\* C4: when the input contains '@', the text after the first '@' must parse
\* as a semantic version or the whole parse fails; a successful parse of an
\* input containing '@' never has an absent version.
C4_VersionMustParse ==
    (ppc # "start" /\ Index(input, "@") # 0) =>
        LET nv == NewVersion(Cut(input, "@").after)
        IN  /\ nv.err # NilErr => perr = nv.err
            /\ Cut(input, "@").after = <<>> => perr # NilErr
            /\ perr = NilErr => (pn.Version # NilVersion /\ pn.Version = nv.ver)

\* wasi:clocks@x, rejected by the version parser
C4_Witness ==
    /\ ppc = "parsed"
    /\ input = wasi \o <<":">> \o clocks \o <<"@", "x">>
    /\ perr = "not in dotted-tri format"
    /\ pn.Version = NilVersion

\* the reference parser of the specification: the first ':' splits namespace
\* and remainder, then '@' splits the remainder into name and version
RefParsePackageName(s) ==
    LET colon == Cut(s, ":")
        at    == Cut(colon.after, "@")
        base  == [Namespace |-> colon.before, Name |-> at.before, Version |-> NilVersion]
    IN  IF at.found
        THEN LET nv == NewVersion(at.after)
                 p  == [base EXCEPT !.Version = nv.ver]
             IN  IF nv.err # NilErr
                 THEN [pn |-> p, err |-> nv.err]
                 ELSE [pn |-> p, err |-> Validate(p)]
        ELSE [pn |-> base, err |-> Validate(base)]

\* an '@' occurs with no ':' before it
AtBeforeColon(s) ==
    /\ Index(s, "@") # 0
    /\ (Index(s, ":") = 0 \/ Index(s, "@") < Index(s, ":"))

\* C10 as stated: for every input ParsePackageName produces the same outcome
\* as the reference parser.
C10_SameAsReference ==
    ppc # "start" =>
        /\ (perr = NilErr) = (RefParsePackageName(input).err = NilErr)
        /\ perr = NilErr => pn = RefParsePackageName(input).pn

\* C10 as amended: ParsePackageName produces the same outcome as the reference
\* parser for every input in which no '@' occurs before the first ':', and
\* rejects every input in which an '@' occurs with no ':' before it.
C10_SameAsReferenceWhenColonFirst ==
    ppc # "start" =>
        /\ ~AtBeforeColon(input) =>
              /\ pn = RefParsePackageName(input).pn
              /\ perr = RefParsePackageName(input).err
        /\ AtBeforeColon(input) => perr # NilErr

\* an accepted input with two ':' and a version
C10_Witness ==
    /\ ppc = "parsed"
    /\ input = <<"a", ":", ":", "@", "1", ".", "0", ".", "0">>
    /\ perr = NilErr
    /\ pn.Name = <<":">>

----------------------------------------------------------------------------
(* Properties of primitive type lookup *)

\* the 13 canonical names of the primitive types
CanonicalTypeNames ==
    { <<"b", "o", "o", "l">>,
      <<"s", "8">>,
      <<"u", "8">>,
      <<"s", "1", "6">>,
      <<"u", "1", "6">>,
      <<"s", "3", "2">>,
      <<"u", "3", "2">>,
      <<"s", "6", "4">>,
      <<"u", "6", "4">>,
      <<"f", "l", "o", "a", "t", "3", "2">>,
      <<"f", "l", "o", "a", "t", "6", "4">>,
      <<"c", "h", "a", "r">>,
      <<"s", "t", "r", "i", "n", "g">> }

\* tok occurs in text
Contains(text, tok) ==
    \E i \in 1..(Len(text) - Len(tok) + 1) : SubSeq(text, i, i + Len(tok) - 1) = tok

\* C8: ParseType succeeds exactly on the 13 canonical names; TypeName() of the
\* returned primitive is the input name, never "<undefined>" or "", and
\* ParseType of it returns the same primitive; every other string yields no
\* type and an error whose text names the unrecognized token.
C8_PrimitiveLookupBijection ==
    /\ Cardinality(CanonicalTypeNames) = 13
    /\ tpc \notin {"off", "start"} =>
          /\ terr.nil <=> tin \in CanonicalTypeNames
          /\ terr.nil <=> ttype \in PrimitiveTypes
          /\ ~terr.nil => (ttype = NilType /\ Contains(terr.text, Quote(tin)))
    /\ tpc \in {"named", "reparsed"} =>
          /\ tname = tin
          /\ tname \notin {<<>>, <<"<", "u", "n", "d", "e", "f", "i", "n", "e", "d", ">">>}
    /\ tpc = "reparsed" => (terr2.nil /\ ttype2 = ttype)

\* char, looked up, named and looked up again
C8_Witness ==
    /\ tpc = "reparsed"
    /\ tin = <<"c", "h", "a", "r">>
    /\ ttype = "Char"
    /\ ttype2 = "Char"

----------------------------------------------------------------------------
(* Properties of the wasm-tools adapter *)

\* the call runs loadWIT
InloadWIT == entry \in {"LoadWIT", "DecodeWIT", "loadWIT"}

FailsBeforeDecoding ==
    \/ entry = "LoadJSON" /\ ~env.opens
    \/ InloadWIT /\ path # "" /\ reader # NilReader
    \/ InloadWIT /\ ~env.inPath
    \/ InloadWIT /\ env.exit # 0

\* C7: on every failing path of LoadJSON, LoadWIT, DecodeWIT and loadWIT that
\* precedes decoding the caller receives a non-nil error with a nil graph and
\* the decoder is never invoked; the compiler is never run when the
\* executable lookup failed.
C7_FailFast ==
    /\ (lpc # "idle" /\ FailsBeforeDecoding) =>
          /\ decodes = 0
          /\ lpc \notin {"decode", "decodeFile"}
          /\ lpc = "done" => (retErr # NoError /\ retGraph = NilResolve)
    /\ (InloadWIT /\ ~env.inPath) => (runs = 0 /\ lpc \notin {"command", "run"})

\* the compiler ran, exited non-zero over a well-formed document, and nothing was decoded
C7_Witness ==
    /\ lpc = "done"
    /\ runs = 1 /\ env.exit # 0 /\ env.document = "well-formed"
    /\ retGraph = NilResolve /\ retErr = ErrExit(env.exit)

\* the compiler was run and exited non-zero
ToolFailed == lpc = "done" /\ runs = 1 /\ env.exit # 0

\* the error lets its holder read text
Carries(e, text) == e.msg = text \/ e.Stderr = text

\* C9 as stated: when the compiler exits non-zero, the error returned to the
\* caller carries the tool's captured standard-error text verbatim.
C9_ErrorCarriesStderr ==
    ToolFailed => Carries(retErr, env.stderr)

\* C9 as amended: when the compiler exits non-zero, the tool's captured
\* standard-error text is written verbatim to the process's standard error,
\* and the error returned is the exit error of the run, which holds the exit
\* status and not the text.
C9_StderrPrintedErrorIsExitStatus ==
    /\ ToolFailed =>
          /\ osStderr = <<env.stderr>>
          /\ retErr = ErrExit(env.exit)
          /\ retErr.Stderr = ""
          /\ retGraph = NilResolve
    /\ ~ToolFailed => osStderr = <<>>

\* a failed run with diagnostic text, which is on os.Stderr and not in the error
C9_Witness ==
    /\ ToolFailed
    /\ env.stderr = "error: expected package"
    /\ osStderr = <<"error: expected package">>
    /\ ~Carries(retErr, env.stderr)

\* the arguments of the command without an input file
ArgsWithoutFile == <<wasmTools, "component", "wit", "-j", "--all-features">>

\* C11: a path is used as the input file of the compiler only when it is
\* neither "" nor "-"; for "-" as for "", the path is not passed as an
\* argument, the reader is the input, and a reader together with the path
\* "-" is not an input conflict.
C11_DashMeansReader ==
    InloadWIT =>
        /\ (path \in {"", "-"} /\ lpc = "done") => retErr # ErrBothPathAndReader
        /\ (path \in {"", "-"} /\ cmd # NoCmd) =>
              (cmd.args = ArgsWithoutFile /\ cmd.stdin = reader)
        /\ (path \notin {"", "-"} /\ cmd # NoCmd) =>
              cmd.args = ArgsWithoutFile \o <<path>>

----------------------------------------------------------------------------
(* Properties of the data model *)

\* no two entries of map m have the same key
UniqueKeys(m) == \A e1, e2 \in m : e1.key = e2.key => e1 = e2

\* the items of the Interface: its type definitions and its functions together
InterfaceItems == iface.TypeDefs \cup iface.Functions

====
